---- MODULE Spec2Model ----
(***************************************************************************)
(* Clause segmentation and risk classification engine.                     *)
(*                                                                         *)
(* A text is a sequence of tokens.  A token is either a single character   *)
(* that the regular expressions of the program look at (tab, carriage      *)
(* return, newline, space, form feed, '.', '!', '?', '-', ')', a digit     *)
(* string) or a chunk: a run of characters that contains none of those     *)
(* single characters except single interior spaces, so that no split,      *)
(* strip or collapse of the program can cut it.  Each chunk carries the    *)
(* attributes the program reads from it: its length in characters, its     *)
(* case, the phrase it starts with and the classifier keywords it holds.   *)
(***************************************************************************)
EXTENDS Integers, Sequences, FiniteSets, TLC

(***************************************************************************)
(* Bounds of the model.                                                    *)
(***************************************************************************)
MaxSegs == 3
MaxCleanLen == 5
MaxPhrases == 3
MaxTerms == 3
MaxAmbPhrases == 3

(***************************************************************************)
(* Tokens.                                                                 *)
(***************************************************************************)
TAB == "\t"
CR == "\r"
NL == "\n"
SP == " "
FF == "\f"
DOT == "."
BANG == "!"
QMARK == "?"
DASH == "-"
RPAREN == ")"
DIGITS == "1"
\* the bullet character U+2022
BULLET == "<bullet>"

HEAD == "SECTION 1"
LONGHEAD == "TERMS AND CONDITIONS OF THE LEASE"
NOTES == "NOTES"
EMP1 == "The employee shall work diligently for the company at all times"
EMP2 == "Employee shall report to the manager on each and every working day"
RENT == "The tenant shall pay rent of Rs15000 monthly"
MID == "The premises are kept clean"
REFUND == "The rent deposit is refundable on expiry of the lease period"
SHORT == "Signed"
GRP1 == "employee"
\* clauses the risk scorer rates High, Medium and High
FIRE == "The company may terminate this agreement at any time without notice"
INDEMN == "The tenant shall indemnify the owner against all losses"
QUIT == "terminate without notice"

\* chunks that hold keywords of guess_clause_type, one that holds none, and
\* a run of 1198 letters without a keyword
DEPOSIT == "security deposit"
REPAIR == "repair"
SUBLET == "sublet"
TERMINATE == "terminate"
WITHOUT_NOTICE == "without notice"
NOTICE == "notice"
RESTRICTION == "restriction after termination"
NONCOMPETE == "non-compete"
CONFIDENTIAL == "confidential"
LIABLE == "liable"
COURTS == "courts at"
ACTOFGOD == "act of god"
PLAIN == "the parties to this deed agree to what it states"
LONG == "<a run of 1198 letters>"

Keywords == {DEPOSIT, REPAIR, SUBLET, TERMINATE, WITHOUT_NOTICE, NOTICE,
             RESTRICTION, NONCOMPETE, CONFIDENTIAL, LIABLE, COURTS, ACTOFGOD,
             PLAIN, LONG}

Chunks == {HEAD, LONGHEAD, NOTES, EMP1, EMP2, RENT, MID, REFUND, SHORT, GRP1,
           FIRE, INDEMN, QUIT}
            \cup Keywords

\* len(token): the number of characters of a token
TokLen(t) ==
  CASE t = HEAD -> 9
    [] t = LONGHEAD -> 33
    [] t = NOTES -> 5
    [] t = EMP1 -> 63
    [] t = EMP2 -> 66
    [] t = RENT -> 44
    [] t = MID -> 27
    [] t = REFUND -> 60
    [] t = SHORT -> 6
    [] t = GRP1 -> 8
    [] t = FIRE -> 67
    [] t = INDEMN -> 55
    [] t = QUIT -> 24
    [] t = DEPOSIT -> 16
    [] t = REPAIR -> 6
    [] t = SUBLET -> 6
    [] t = TERMINATE -> 9
    [] t = WITHOUT_NOTICE -> 14
    [] t = NOTICE -> 6
    [] t = RESTRICTION -> 29
    [] t = NONCOMPETE -> 11
    [] t = CONFIDENTIAL -> 12
    [] t = LIABLE -> 6
    [] t = COURTS -> 9
    [] t = ACTOFGOD -> 10
    [] t = PLAIN -> 48
    [] t = LONG -> 1198
    [] OTHER -> 1

\* str.isspace of a character: what str.strip() removes and \s matches
IsSpace(t) == t \in {TAB, CR, NL, SP, FF}

\* len(s) of a text
RECURSIVE StrLen(_)
StrLen(s) == IF s = <<>> THEN 0 ELSE TokLen(Head(s)) + StrLen(Tail(s))

\* s with every token a replaced by b
ReplaceTok(s, a, b) == [i \in 1..Len(s) |-> IF s[i] = a THEN b ELSE s[i]]

\* re.sub(r"\n{3,}", "\n\n", s): of a run of newlines only the first two stay
CollapseNewlines(s) ==
  LET F[i \in 0..Len(s)] ==
        IF i = 0 THEN <<>>
        ELSE IF i > 2 /\ s[i] = NL /\ s[i - 1] = NL /\ s[i - 2] = NL
             THEN F[i - 1] ELSE Append(F[i - 1], s[i])
  IN F[Len(s)]

\* re.sub(r"[ ]{2,}", " ", s): of a run of spaces only the first stays
CollapseSpaces(s) ==
  LET F[i \in 0..Len(s)] ==
        IF i = 0 THEN <<>>
        ELSE IF i > 1 /\ s[i] = SP /\ s[i - 1] = SP
             THEN F[i - 1] ELSE Append(F[i - 1], s[i])
  IN F[Len(s)]

RECURSIVE LStrip(_)
LStrip(s) == IF s # <<>> /\ IsSpace(Head(s)) THEN LStrip(Tail(s)) ELSE s

RECURSIVE RStrip(_)
RStrip(s) ==
  IF s # <<>> /\ IsSpace(s[Len(s)]) THEN RStrip(SubSeq(s, 1, Len(s) - 1)) ELSE s

\* str.strip()
Strip(s) == RStrip(LStrip(s))

\* clean_text with its steps in a different order: spaces are collapsed
\* before tabs become spaces
clean_text_SpacesFirst(text) ==
  IF text = <<>> THEN <<>>
  ELSE Strip(CollapseNewlines(ReplaceTok(ReplaceTok(CollapseSpaces(text),
                                                    TAB, SP), CR, NL)))

clean_text(text) ==
  IF text = <<>> THEN <<>>
  ELSE Strip(CollapseSpaces(CollapseNewlines(ReplaceTok(ReplaceTok(text,
                                                    TAB, SP), CR, NL))))

(***************************************************************************)
(* Helpers of extract_clauses.                                             *)
(***************************************************************************)
\* the case of the letters of a token: str.isupper() needs one upper-case
\* letter and no lower-case letter
TokCase(t) ==
  CASE t \in {HEAD, LONGHEAD, NOTES} -> "upper"
    [] t \in {EMP1, EMP2, RENT, MID, REFUND, SHORT, GRP1, FIRE, INDEMN, QUIT}
            \cup Keywords -> "lower"
    [] OTHER -> "none"

IsUpper(s) ==
  /\ \E i \in 1..Len(s) : TokCase(s[i]) = "upper"
  /\ \A i \in 1..Len(s) : TokCase(s[i]) # "lower"

HeadingMinLen == 5
HeadingMaxLen == 60

\* _is_heading
_is_heading(line) ==
  LET l == Strip(line)
  IN IsUpper(l) /\ HeadingMinLen < StrLen(l) /\ StrLen(l) <= HeadingMaxLen

\* number_pattern.match(line): ^\d+(\.\d+)*[\)\.]?\s+
RECURSIVE SkipDotDigits(_, _)
SkipDotDigits(s, p) ==
  IF p + 1 <= Len(s) /\ s[p] = DOT /\ s[p + 1] = DIGITS
  THEN SkipDotDigits(s, p + 2) ELSE p

number_pattern(line) ==
  /\ line # <<>>
  /\ line[1] = DIGITS
  /\ LET p == SkipDotDigits(line, 2)
         q == IF p <= Len(line) /\ line[p] \in {RPAREN, DOT} THEN p + 1 ELSE p
     IN q <= Len(line) /\ IsSpace(line[q])

\* text.split("\n")
RECURSIVE SplitOn(_, _, _)
SplitOn(s, sep, cur) ==
  IF s = <<>> THEN <<cur>>
  ELSE IF Head(s) = sep THEN <<cur>> \o SplitOn(Tail(s), sep, <<>>)
  ELSE SplitOn(Tail(s), sep, Append(cur, Head(s)))

SplitLines(s) == SplitOn(s, NL, <<>>)

\* " ".join(parts)
RECURSIVE Join(_)
Join(parts) ==
  IF parts = <<>> THEN <<>>
  ELSE IF Len(parts) = 1 THEN parts[1]
  ELSE parts[1] \o <<SP>> \o Join(Tail(parts))

\* the rules of guess_clause_type a token satisfies: the rule's pattern
\* occurs in the lower-cased token ('nda' occurs in 'refundable')
TokRules(t) ==
  CASE t = RENT -> {"Payment & Financial Terms"}
    [] t = REFUND -> {"Security Deposit & Refund", "Payment & Financial Terms",
                      "Confidentiality"}
    [] t = FIRE -> {"Termination", "Notice & Possession"}
    [] t = INDEMN -> {"Indemnity & Liability"}
    [] t = QUIT -> {"Termination", "Notice & Possession"}
    [] t = DEPOSIT -> {"Security Deposit & Refund"}
    [] t = REPAIR -> {"Maintenance & Handover"}
    [] t = SUBLET -> {"Use of Premises & Restrictions"}
    [] t = TERMINATE -> {"Termination"}
    [] t = WITHOUT_NOTICE -> {"Termination", "Notice & Possession"}
    [] t = NOTICE -> {"Notice & Possession"}
    [] t = RESTRICTION -> {"Termination", "Non-Compete"}
    [] t = NONCOMPETE -> {"Non-Compete"}
    [] t = CONFIDENTIAL -> {"Confidentiality"}
    [] t = LIABLE -> {"Indemnity & Liability"}
    [] t = COURTS -> {"Governing Law & Jurisdiction"}
    [] t = ACTOFGOD -> {"Force Majeure"}
    [] OTHER -> {}

TypeRules ==
  << "Security Deposit & Refund", "Payment & Financial Terms",
     "Maintenance & Handover", "Use of Premises & Restrictions",
     "Termination", "Notice & Possession", "Non-Compete", "Confidentiality",
     "Indemnity & Liability", "Governing Law & Jurisdiction", "Force Majeure" >>

RuleHolds(r, text) == \E i \in 1..Len(text) : r \in TokRules(text[i])

\* guess_clause_type with the payment rule tried before the deposit rule
guess_clause_type_PaymentFirst(text) ==
  IF RuleHolds("Payment & Financial Terms", text)
  THEN "Payment & Financial Terms"
  ELSE IF \E k \in 1..Len(TypeRules) : RuleHolds(TypeRules[k], text)
  THEN TypeRules[CHOOSE k \in 1..Len(TypeRules) :
                   /\ RuleHolds(TypeRules[k], text)
                   /\ \A j \in 1..(k - 1) : ~RuleHolds(TypeRules[j], text)]
  ELSE "General"

\* guess_clause_type: the first rule that holds, else General
guess_clause_type(text) ==
  IF \E k \in 1..Len(TypeRules) : RuleHolds(TypeRules[k], text)
  THEN TypeRules[CHOOSE k \in 1..Len(TypeRules) :
                   /\ RuleHolds(TypeRules[k], text)
                   /\ \A j \in 1..(k - 1) : ~RuleHolds(TypeRules[j], text)]
  ELSE "General"

ShortLen == 50
LongLen == 1200

\* len(re.findall(r"[.!?]", text))
RECURSIVE CountSentences(_)
CountSentences(s) ==
  IF s = <<>> THEN 0
  ELSE (IF Head(s) \in {DOT, BANG, QMARK} THEN 1 ELSE 0) + CountSentences(Tail(s))

\* round(max(0.4, min(1.0, sentences/5 + length/800)), 2) in hundredths.
\* The sum is v/800 with v = 160*sentences + length; a value that lies
\* exactly between two hundredths is rounded down here, which is what the
\* floating-point evaluation yields at v = 476, the only tie next to the
\* 0.6 threshold of decide_action; at other ties the floating-point result
\* can be the hundredth above, and no decision of the program reads it.
QualityScore(sentences, length) ==
  LET n == 160 * sentences + length
      v == IF n < 320 THEN 320 ELSE IF n > 800 THEN 800 ELSE n
  IN (v + 3) \div 8

\* analyze_clause_quality with the sentence check skipped for a clause
\* that already has a length warning
analyze_clause_quality_Elif(text) ==
  LET length == StrLen(text)
      sentences == CountSentences(text)
  IN [ length |-> length,
       sentences |-> sentences,
       quality_score |-> QualityScore(sentences, length),
       warnings |->
         IF length < ShortLen THEN <<"Clause is unusually short">>
         ELSE IF length > LongLen
         THEN <<"Clause is unusually long (possible merge)">>
         ELSE IF sentences = 0
         THEN <<"No sentence structure detected">> ELSE <<>> ]

\* analyze_clause_quality
analyze_clause_quality(text) ==
  LET length == StrLen(text)
      sentences == CountSentences(text)
  IN [ length |-> length,
       sentences |-> sentences,
       quality_score |-> QualityScore(sentences, length),
       warnings |->
         (IF length < ShortLen THEN <<"Clause is unusually short">> ELSE <<>>)
         \o (IF length > LongLen
             THEN <<"Clause is unusually long (possible merge)">> ELSE <<>>)
         \o (IF sentences = 0
             THEN <<"No sentence structure detected">> ELSE <<>>) ]

\* decide_action with the score looked at before the warnings
decide_action_ScoreFirst(quality) ==
  IF quality.quality_score < 60 THEN "Rewrite Suggested"
  ELSE IF quality.warnings # <<>> THEN "Review Required"
  ELSE "Looks Acceptable"

\* decide_action
decide_action(quality) ==
  IF quality.warnings # <<>> THEN "Review Required"
  ELSE IF quality.quality_score < 60 THEN "Rewrite Suggested"
  ELSE "Looks Acceptable"

\* title = None
None == <<"<None>">>

\* the dictionary appended to the clause list
ClauseRecord(id, ttl, text, src) ==
  LET quality == analyze_clause_quality(text)
  IN [ clause_id |-> id, title |-> ttl, text |-> text,
       type_hint |-> guess_clause_type(text),
       quality |-> quality, action |-> decide_action(quality),
       source |-> src ]
(***************************************************************************)
(* The two fallback splits of extract_clauses.                             *)
(***************************************************************************)
\* how a chunk starts, for the lookahead of the sentence split:
\* "group" when it starts with 'the employee' or 'the employer', the
\* alternative that holds the capturing group; "nogroup" when it starts
\* with 'employee shall', 'employer may', 'shall receive' or 'shall not';
\* "no" otherwise
Trigger(t) ==
  CASE t = EMP1 -> "group"
    [] t = EMP2 -> "nogroup"
    [] OTHER -> "no"

\* the text the capturing group (employee|employer) matched in a chunk
GroupText(t) == <<GRP1>>

\* the first index at or after i whose token is not in set S
RECURSIVE RunEnd(_, _, _)
RunEnd(s, i, S) == IF i <= Len(s) /\ s[i] \in S THEN RunEnd(s, i + 1, S) ELSE i

Whitespace == {TAB, CR, NL, SP, FF}
SentenceEnd == {DOT, BANG, QMARK}
\* [\n...\-...]+ : the characters of the class that the token alphabet
\* holds.  Besides the newline and '-' the class of the source holds the
\* characters of the wrongly decoded bytes of the bullet, the en dash and
\* the em dash; the bullet character itself is no member of it.
OcrBreak == {NL, DASH}

\* an element of the list re.split returns: a string, or None for a group
\* that took no part in the match
Str(t) == [none |-> FALSE, text |-> t]
NoneFrag == [none |-> TRUE, text |-> <<>>]

\* re.split(r"(?i)(?<=\.)\s+(?=the\s+(employee|employer)|employee\s+shall|
\*          employer\s+may|shall\s+receive|shall\s+not)", block):
\* the pieces between the matches, and after each piece the group of the
\* match that ended it
RECURSIVE SentenceSplit(_, _, _)
SentenceSplit(s, i, cur) ==
  IF i > Len(s) THEN <<Str(cur)>>
  ELSE LET j == RunEnd(s, i, Whitespace)
       IN IF /\ i > 1 /\ s[i - 1] = DOT /\ IsSpace(s[i])
             /\ j <= Len(s) /\ Trigger(s[j]) # "no"
          THEN <<Str(cur),
                 IF Trigger(s[j]) = "group" THEN Str(GroupText(s[j]))
                 ELSE NoneFrag>> \o SentenceSplit(s, j, <<>>)
          ELSE SentenceSplit(s, i + 1, Append(cur, s[i]))

\* re.split(r"(?<=[\.\!\?])\s+|[\n...\-...]+", block)
RECURSIVE OcrSplit(_, _, _)
OcrSplit(s, i, cur) ==
  IF i > Len(s) THEN <<cur>>
  ELSE IF i > 1 /\ s[i - 1] \in SentenceEnd /\ IsSpace(s[i])
  THEN <<cur>> \o OcrSplit(s, RunEnd(s, i, Whitespace), <<>>)
  ELSE IF s[i] \in OcrBreak
  THEN <<cur>> \o OcrSplit(s, RunEnd(s, i, OcrBreak), <<>>)
  ELSE OcrSplit(s, i + 1, Append(cur, s[i]))

SentenceMinLen == 40

OcrMinLen == 25

\* the loop over enumerate(sentences, 1): new_clauses
RECURSIVE SentenceClauses(_, _, _)
SentenceClauses(sentences, idx, acc) ==
  IF idx > Len(sentences) THEN acc
  ELSE LET t == Strip(sentences[idx].text)
       IN IF StrLen(t) < SentenceMinLen
          THEN SentenceClauses(sentences, idx + 1, acc)
          ELSE SentenceClauses(sentences, idx + 1,
                 Append(acc, ClauseRecord(idx, None, t, "sentence-split")))

\* the loop over rough_sentences: rebuilt
RECURSIVE OcrClauses(_, _, _)
OcrClauses(rough, k, acc) ==
  IF k > Len(rough) THEN acc
  ELSE LET t == Strip(rough[k])
       IN IF StrLen(t) < OcrMinLen
          THEN OcrClauses(rough, k + 1, acc)
          ELSE OcrClauses(rough, k + 1,
                 Append(acc, ClauseRecord(Len(acc) + 1, None, t, "ocr-fallback")))
(***************************************************************************)
(* The risk scorer.  A clause text is here a sequence of words joined by   *)
(* single spaces; a word that holds no keyword of the scorer may stand for *)
(* several words.                                                          *)
(***************************************************************************)
\* str.lower() of a word
LowerWord(w) ==
  CASE w = "Employee" -> "employee"
    [] w = "Rs." -> "rs."
    [] w = "Best" -> "best"
    [] w = "Efforts" -> "efforts"
    [] w = "The company may" -> "the company may"
    [] w = "The tenant shall" -> "the tenant shall"
    [] w = "with the Employer for 2 years" -> "with the employer for 2 years"
    [] OTHER -> w

Lower(s) == [i \in 1..Len(s) |-> LowerWord(s[i])]

\* the words that occur inside a word, the word itself among them
Inside(w) ==
  CASE w = "materials" -> {"materials", "material"}
    [] w = "substantially" -> {"substantially", "substantial"}
    [] OTHER -> {w}

\* k in text: the words of k occur side by side in text
In(k, t) ==
  \E i \in 1..(Len(t) - Len(k) + 1) :
     \A j \in 1..Len(k) :
        IF Len(k) = 1 THEN k[j] \in Inside(t[i + j - 1]) ELSE k[j] = t[i + j - 1]

AnyIn(ks, t) == \E k \in ks : In(k, t)

TerminationKeys == { <<"terminate">>, <<"termination">> }
NonCompeteKeys == { <<"non-compete">>, <<"non", "compete">>,
                    <<"shall", "not", "compete">>,
                    <<"restriction", "after", "termination">> }
ConfidentialityKeys == { <<"confidential">>, <<"non-disclosure">>,
                         <<"confidential", "information">> }
CompensationKeys == { <<"salary">>, <<"compensation">>, <<"fees">>,
                      <<"payment">>, <<"remuneration">> }
IndemnityKeys == { <<"indemnify">>, <<"liability">>, <<"damages">>, <<"losses">> }
DisputeKeys == { <<"arbitration">>, <<"jurisdiction">>, <<"governing", "law">> }

\* classify_clause with the indemnity group tried first
classify_clause_IndemnityFirst(clause) ==
  LET t == Lower(clause)
  IN IF AnyIn(IndemnityKeys, t) THEN "Indemnity & Liability"
     ELSE IF AnyIn(TerminationKeys, t) THEN "Termination"
     ELSE IF AnyIn(NonCompeteKeys, t) THEN "Non-Compete"
     ELSE IF AnyIn(ConfidentialityKeys, t) THEN "Confidentiality"
     ELSE IF AnyIn(CompensationKeys, t) THEN "Compensation"
     ELSE IF AnyIn(DisputeKeys, t) THEN "Dispute Resolution"
     ELSE "General"

\* classify_clause
classify_clause(clause) ==
  LET t == Lower(clause)
  IN IF AnyIn(TerminationKeys, t) THEN "Termination"
     ELSE IF AnyIn(NonCompeteKeys, t) THEN "Non-Compete"
     ELSE IF AnyIn(ConfidentialityKeys, t) THEN "Confidentiality"
     ELSE IF AnyIn(CompensationKeys, t) THEN "Compensation"
     ELSE IF AnyIn(IndemnityKeys, t) THEN "Indemnity & Liability"
     ELSE IF AnyIn(DisputeKeys, t) THEN "Dispute Resolution"
     ELSE "General"

critical_red_flags ==
  << <<"sole", "discretion">>, <<"without", "notice">>, <<"at", "any", "time">>,
     <<"irrevocable">>, <<"in", "perpetuity">>, <<"unlimited", "liability">> >>

ambiguity_terms ==
  << <<"reasonable">>, <<"best", "efforts">>, <<"as", "soon", "as", "possible">>,
     <<"from", "time", "to", "time">>, <<"material">> >>

Range(f) == { f[i] : i \in DOMAIN f }

\* the rupee sign, "inr", "rs.", "$"
CurrencyMarkers == { <<"<rupee>">>, <<"inr">>, <<"rs.">>, <<"$">> }

\* what one rule of the scorer adds
Part(sc, rs, sg, tg) == [score |-> sc, reasons |-> rs, suggestions |-> sg, tags |-> tg]
NoPart == Part(0, <<>>, <<>>, <<>>)
Plus(a, b) == Part(a.score + b.score, a.reasons \o b.reasons,
                   a.suggestions \o b.suggestions, a.tags \o b.tags)

\* the Termination branch with the boost given for 'immediate termination'
\* only
TerminationBranch_ImmediateOnly(t) ==
  Plus(Part(20, <<>>, <<>>, <<"Employment Risk">>),
       IF In(<<"immediate", "termination">>, t)
       THEN Part(30, <<"Termination without adequate notice.">>,
                 <<"Introduce minimum notice period (e.g., 30 days).">>,
                 <<"High Impact">>)
       ELSE NoPart)

\* the Termination branch of assess_risk
TerminationBranch(t) ==
  Plus(Part(20, <<>>, <<>>, <<"Employment Risk">>),
       IF AnyIn({<<"without", "notice">>, <<"immediate", "termination">>}, t)
       THEN Part(30, <<"Termination without adequate notice.">>,
                 <<"Introduce minimum notice period (e.g., 30 days).">>,
                 <<"High Impact">>)
       ELSE NoPart)

\* the branch of assess_risk taken for the clause type
TypeBranch(clause_type, t) ==
  CASE clause_type = "Termination" -> TerminationBranch(t)
    [] clause_type = "Non-Compete" ->
         Part(35, <<"Restricts future employment opportunities.">>,
              <<"Limit non-compete by duration, geography, and business scope.">>,
              <<"Post-Termination Risk">>)
    [] clause_type = "Confidentiality" ->
         Plus(Part(10, <<"Standard confidentiality obligation.">>, <<>>,
                   <<"IP Protection">>),
              IF In(<<"forever">>, t) \/ In(<<"in", "perpetuity">>, t)
              THEN Part(15, <<"Confidentiality obligation has no end date.">>,
                        <<"Limit confidentiality to 2-5 years.">>, <<>>)
              ELSE NoPart)
    [] clause_type = "Compensation" ->
         IF ~AnyIn(CurrencyMarkers, t)
         THEN Part(25, <<"Compensation amount is unclear or missing.">>,
                   <<"Specify clear payment amount and schedule.">>,
                   <<"Financial Risk">>)
         ELSE Part(5, <<"Compensation terms are defined.">>, <<>>, <<>>)
    [] clause_type = "Indemnity & Liability" ->
         Part(30, <<"Broad indemnity or liability exposure.">>,
              <<"Cap liability and exclude indirect or consequential damages.">>,
              <<"Financial Exposure">>)
    [] clause_type = "Dispute Resolution" ->
         Plus(Part(10, <<>>, <<>>, <<"Legal Process">>),
              IF In(<<"sole", "arbitrator", "appointed", "by">>, t)
              THEN Part(20, <<"Unilateral arbitrator appointment.">>,
                        <<"Provide mutual appointment mechanism.">>, <<>>)
              ELSE NoPart)
    [] OTHER -> Part(5, <<"General contractual obligation.">>, <<>>, <<>>)

\* the ambiguity penalty added once for every term that occurs
AmbiguityPenalty_PerTerm(t) ==
  LET n == Cardinality({ k \in DOMAIN ambiguity_terms : In(ambiguity_terms[k], t) })
  IN IF n > 0
     THEN Part(10 * n, <<"Uses ambiguous or subjective language.">>,
               <<"Replace vague terms with measurable obligations.">>,
               <<"Ambiguity">>)
     ELSE NoPart

\* the ambiguity penalty
AmbiguityPenalty(t) ==
  IF AnyIn(Range(ambiguity_terms), t)
  THEN Part(10, <<"Uses ambiguous or subjective language.">>,
            <<"Replace vague terms with measurable obligations.">>,
            <<"Ambiguity">>)
  ELSE NoPart

\* the critical red flag boost
RedFlagBoost(t) ==
  IF AnyIn(Range(critical_red_flags), t)
  THEN Part(20, <<"Contains critical red-flag language.">>, <<>>, <<"Critical">>)
  ELSE NoPart

HighScore == 60
MediumScore == 30

\* round(min(0.95, 0.6 + score/120), 2) in hundredths
Confidence(score) ==
  LET c == ((72 + score) * 5 + 2) \div 6
  IN IF c > 95 THEN 95 ELSE c

\* the final risk level with the High tier starting above 60
RiskLevel_Above(score) ==
  IF score > HighScore THEN "High"
  ELSE IF score >= MediumScore THEN "Medium"
  ELSE "Low"

\* the final risk level
RiskLevel(score) ==
  IF score >= HighScore THEN "High"
  ELSE IF score >= MediumScore THEN "Medium"
  ELSE "Low"

\* the negotiation priority set together with the risk level
Priority(score) ==
  IF score >= HighScore THEN "Immediate"
  ELSE IF score >= MediumScore THEN "Recommended"
  ELSE "Optional"

\* assess_risk with the red-flag rule evaluated before the ambiguity rule
assess_risk_RedFlagFirst(clause) ==
  LET t == Lower(clause)
      clause_type == classify_clause(clause)
      sum == Plus(Plus(TypeBranch(clause_type, t), RedFlagBoost(t)),
                  AmbiguityPenalty(t))
  IN [ type |-> clause_type,
       risk_level |-> RiskLevel(sum.score),
       score |-> sum.score,
       confidence |-> Confidence(sum.score),
       negotiation_priority |-> Priority(sum.score),
       reasons |-> sum.reasons,
       suggestions |-> IF sum.suggestions # <<>> THEN sum.suggestions
                       ELSE <<"No immediate action required.">>,
       tags |-> sum.tags ]

\* assess_risk
assess_risk(clause) ==
  LET t == Lower(clause)
      clause_type == classify_clause(clause)
      sum == Plus(Plus(TypeBranch(clause_type, t), AmbiguityPenalty(t)),
                  RedFlagBoost(t))
  IN [ type |-> clause_type,
       risk_level |-> RiskLevel(sum.score),
       score |-> sum.score,
       confidence |-> Confidence(sum.score),
       negotiation_priority |-> Priority(sum.score),
       reasons |-> sum.reasons,
       suggestions |-> IF sum.suggestions # <<>> THEN sum.suggestions
                       ELSE <<"No immediate action required.">>,
       tags |-> sum.tags ]

(***************************************************************************)
(* State.                                                                  *)
(***************************************************************************)
VARIABLES
  input,      \* extract_clauses: the argument
  pc,         \* extract_clauses: the position in the function
  text,       \* the cleaned text
  lines,      \* text.split("\n")
  li,         \* the index of the line the loop is at
  clauses, current, title, clause_id, source,
  result,     \* the returned list
  raised,     \* an exception left the function
  raw, once, twice, cpc,  \* clean_text applied once and twice to raw
  clause,     \* assess_risk: the argument
  risk,       \* the assessment of clause
  before,     \* the assessment of the clause before a phrase was appended
  rpc,        \* the position of the caller of assess_risk
  sample,     \* guess_clause_type, analyze_clause_quality: the argument
  hint,       \* guess_clause_type(sample), "" before the call
  checked,    \* analyze_clause_quality(sample), NoQuality before the call
  passage,    \* detect_ambiguity, analyze_ambiguity: the argument
  found,      \* detect_ambiguity(passage)
  analysis,   \* analyze_ambiguity(passage), NoAnalysis before the call
  apc,        \* which of the two has been called on passage
  app,        \* app.py: the position in the script
  ci,         \* app.py: the index of the clause the loop is at
  explained,  \* app.py: the calls of explain_clause_plain_english so far
  rewritten,  \* app.py: the calls of rewrite_clause so far
  headers     \* app.py: the clause headers shown so far

extractVars == <<input, pc, text, lines, li, clauses, current, title,
                 clause_id, source, result, raised>>
cleanVars == <<raw, once, twice, cpc>>
riskVars == <<clause, risk, before, rpc>>
textVars == <<sample, hint, checked>>
ambVars == <<passage, found, analysis, apc>>
appVars == <<app, ci, explained, rewritten, headers>>
vars == <<extractVars, cleanVars, riskVars, textVars, ambVars, appVars>>

(***************************************************************************)
(* Inputs of extract_clauses: up to MaxSegs segments, each a heading line, *)
(* a numbering prefix, a line break, a sentence or a separator.            *)
(***************************************************************************)
Segments ==
  { <<HEAD, NL>>, <<DIGITS, DOT, SP>>, <<NL>>, <<DASH>>,
    <<EMP1, DOT, SP>>, <<EMP2, DOT, SP>>, <<RENT, DOT, SP>>,
    <<MID, DOT, SP>>, <<MID, DOT, NL>>, <<REFUND, DOT, SP>>,
    <<NOTES, NL>>, <<TAB>>, <<LONGHEAD, NL>>, <<MID, SP, BULLET, SP>> }

RECURSIVE Flatten(_)
Flatten(ss) == IF ss = <<>> THEN <<>> ELSE Head(ss) \o Flatten(Tail(ss))

Inputs == { Flatten(ss) : ss \in UNION { [1..n -> Segments] : n \in 0..MaxSegs } }

CleanAlphabet == {TAB, CR, NL, SP, FF, DOT}
CleanInputs == UNION { [1..n -> CleanAlphabet] : n \in 0..MaxCleanLen }

ExtractIdle ==
  /\ input = <<>> /\ pc = "idle" /\ text = <<>> /\ lines = <<>> /\ li = 1
  /\ clauses = <<>> /\ current = <<>> /\ title = None /\ clause_id = 1
  /\ source = "paragraph" /\ result = <<>> /\ raised = FALSE

CleanIdle == raw = <<>> /\ once = <<>> /\ twice = <<>> /\ cpc = "idle"

NoAssessment ==
  [ type |-> "", risk_level |-> "", score |-> 0, confidence |-> 0,
    negotiation_priority |-> "", reasons |-> <<>>, suggestions |-> <<>>,
    tags |-> <<>> ]

NoQuality ==
  [ length |-> 0 - 1, sentences |-> 0, quality_score |-> 0, warnings |-> <<>> ]

TextIdle == sample = <<>> /\ hint = "" /\ checked = NoQuality

NoAnalysis ==
  [ found_terms |-> <<>>, severity_score |-> 0 - 1, risk_level |-> "",
    categories |-> {}, suggestions |-> {}, explanation |-> "" ]

AmbIdle == passage = <<>> /\ found = <<>> /\ analysis = NoAnalysis /\ apc = "idle"

AppIdle ==
  app = "off" /\ ci = 1 /\ explained = <<>> /\ rewritten = <<>> /\ headers = <<>>

RiskIdle ==
  clause = <<>> /\ risk = NoAssessment /\ before = NoAssessment /\ rpc = "idle"

\* extract_clauses is called with a text
Init ==
  /\ input \in Inputs
  /\ pc = "start" /\ text = <<>> /\ lines = <<>> /\ li = 1
  /\ clauses = <<>> /\ current = <<>> /\ title = None /\ clause_id = 1
  /\ source = "paragraph" /\ result = <<>> /\ raised = FALSE
  /\ CleanIdle /\ RiskIdle /\ TextIdle /\ AmbIdle /\ AppIdle

(***************************************************************************)
(* extract_clauses, step by step.                                          *)
(***************************************************************************)
\* text = clean_text(text); lines = text.split("\n"); the locals are set
Normalize ==
  /\ pc = "start"
  /\ text' = clean_text(input)
  /\ lines' = SplitLines(text')
  /\ li' = 1 /\ clauses' = <<>> /\ current' = <<>> /\ title' = None
  /\ clause_id' = 1 /\ source' = "paragraph"
  /\ pc' = "lines"
  /\ UNCHANGED <<input, result, raised, cleanVars, riskVars, textVars, ambVars, appVars>>

Line == Strip(lines[li])

\* the block in current is closed whether or not it holds a line
Closed_Unguarded ==
  Append(clauses, ClauseRecord(clause_id, title, Join(current), source))

\* the clause list after the block in current, if any, is closed
Closed == IF current # <<>>
          THEN Append(clauses, ClauseRecord(clause_id, title, Join(current), source))
          ELSE clauses

\* a blank line: continue
BlankLine ==
  /\ pc = "lines" /\ li <= Len(lines)
  /\ Line = <<>>
  /\ li' = li + 1
  /\ UNCHANGED <<input, pc, text, lines, clauses, current, title, clause_id,
                 source, result, raised, cleanVars, riskVars, textVars, ambVars, appVars>>

\* a heading line closes the block and becomes the title of the next one
HeadingLine ==
  /\ pc = "lines" /\ li <= Len(lines)
  /\ Line # <<>> /\ _is_heading(Line)
  /\ clauses' = Closed
  /\ clause_id' = IF current # <<>> THEN clause_id + 1 ELSE clause_id
  /\ current' = <<>>
  /\ title' = Line
  /\ source' = "heading"
  /\ li' = li + 1
  /\ UNCHANGED <<input, pc, text, lines, result, raised, cleanVars, riskVars, textVars, ambVars, appVars>>

\* a numbered line that leaves the title of the block before it in place
NumberedLine_KeepsTitle ==
  /\ pc = "lines" /\ li <= Len(lines)
  /\ Line # <<>> /\ ~_is_heading(Line) /\ number_pattern(Line)
  /\ clauses' = Closed
  /\ clause_id' = IF current # <<>> THEN clause_id + 1 ELSE clause_id
  /\ current' = <<Line>>
  /\ source' = "numbered"
  /\ li' = li + 1
  /\ UNCHANGED <<input, pc, text, lines, title, result, raised, cleanVars,
                 riskVars, textVars, ambVars, appVars>>

\* a numbered line closes the block and starts the next one
NumberedLine ==
  /\ pc = "lines" /\ li <= Len(lines)
  /\ Line # <<>> /\ ~_is_heading(Line) /\ number_pattern(Line)
  /\ clauses' = Closed
  /\ clause_id' = IF current # <<>> THEN clause_id + 1 ELSE clause_id
  /\ current' = <<Line>>
  /\ title' = None
  /\ source' = "numbered"
  /\ li' = li + 1
  /\ UNCHANGED <<input, pc, text, lines, result, raised, cleanVars, riskVars, textVars, ambVars, appVars>>

\* a body line that replaces the block instead of joining it
BodyLine_Overwrites ==
  /\ pc = "lines" /\ li <= Len(lines)
  /\ Line # <<>> /\ ~_is_heading(Line) /\ ~number_pattern(Line)
  /\ current' = <<Line>>
  /\ li' = li + 1
  /\ UNCHANGED <<input, pc, text, lines, clauses, title, clause_id, source,
                 result, raised, cleanVars, riskVars, textVars, ambVars, appVars>>

\* any other line joins the block
BodyLine ==
  /\ pc = "lines" /\ li <= Len(lines)
  /\ Line # <<>> /\ ~_is_heading(Line) /\ ~number_pattern(Line)
  /\ current' = Append(current, Line)
  /\ li' = li + 1
  /\ UNCHANGED <<input, pc, text, lines, clauses, title, clause_id, source,
                 result, raised, cleanVars, riskVars, textVars, ambVars, appVars>>

\* after the loop the last block is closed; this ends the paragraph strategy
LastBlock ==
  /\ pc = "lines" /\ li > Len(lines)
  /\ clauses' = Closed
  /\ pc' = "paragraphs"
  /\ UNCHANGED <<input, text, lines, li, current, title, clause_id, source,
                 result, raised, cleanVars, riskVars, textVars, ambVars, appVars>>

\* the fallbacks run for a clause list of any length but 0
CascadeRuns_AtLeastOne == Len(clauses) >= 1

\* if len(clauses) == 1: the fallbacks run
CascadeRuns == Len(clauses) = 1

\* len(clauses) != 1: return clauses
ReturnParagraphs ==
  /\ pc = "paragraphs" /\ ~CascadeRuns
  /\ result' = clauses
  /\ pc' = "done"
  /\ UNCHANGED <<input, text, lines, li, clauses, current, title, clause_id,
                 source, raised, cleanVars, riskVars, textVars, ambVars, appVars>>

sentences == SentenceSplit(clauses[1].text, 1, <<>>)
new_clauses == SentenceClauses(sentences, 1, <<>>)

\* the loop over the sentences calls strip() on None
SentenceSplitRaises ==
  /\ pc = "paragraphs" /\ CascadeRuns
  /\ Len(sentences) >= 3
  /\ \E k \in 1..Len(sentences) : sentences[k].none
  /\ raised' = TRUE
  /\ pc' = "done"
  /\ UNCHANGED <<input, text, lines, li, clauses, current, title, clause_id,
                 source, result, cleanVars, riskVars, textVars, ambVars, appVars>>

\* more than one fragment is left: return new_clauses
SentenceSplitAdopted ==
  /\ pc = "paragraphs" /\ CascadeRuns
  /\ Len(sentences) >= 3
  /\ \A k \in 1..Len(sentences) : ~sentences[k].none
  /\ Len(new_clauses) > 1
  /\ result' = new_clauses
  /\ pc' = "done"
  /\ UNCHANGED <<input, text, lines, li, clauses, current, title, clause_id,
                 source, raised, cleanVars, riskVars, textVars, ambVars, appVars>>

\* no split, or at most one fragment is left: on to the next fallback
SentenceSplitRejected ==
  /\ pc = "paragraphs" /\ CascadeRuns
  /\ \/ Len(sentences) < 3
     \/ /\ \A k \in 1..Len(sentences) : ~sentences[k].none
        /\ Len(new_clauses) <= 1
  /\ pc' = "ocr"
  /\ UNCHANGED <<input, text, lines, li, clauses, current, title, clause_id,
                 source, result, raised, cleanVars, riskVars, textVars, ambVars, appVars>>

rough_sentences == OcrSplit(Strip(text), 1, <<>>)
\* every fragment of the OCR split is kept, whatever its length
rebuilt_Unfiltered ==
  [ k \in 1..Len(rough_sentences) |->
      ClauseRecord(k, None, Strip(rough_sentences[k]), "ocr-fallback") ]

rebuilt == OcrClauses(rough_sentences, 1, <<>>)

\* at least 3 fragments are left: return rebuilt
OcrAdopted ==
  /\ pc = "ocr"
  /\ Len(rebuilt) >= 3
  /\ result' = rebuilt
  /\ pc' = "done"
  /\ UNCHANGED <<input, text, lines, li, clauses, current, title, clause_id,
                 source, raised, cleanVars, riskVars, textVars, ambVars, appVars>>

\* fewer are left: return clauses
OcrRejected ==
  /\ pc = "ocr"
  /\ Len(rebuilt) < 3
  /\ result' = clauses
  /\ pc' = "done"
  /\ UNCHANGED <<input, text, lines, li, clauses, current, title, clause_id,
                 source, raised, cleanVars, riskVars, textVars, ambVars, appVars>>

Next ==
  \/ Normalize
  \/ BlankLine \/ HeadingLine \/ NumberedLine \/ BodyLine
  \/ LastBlock
  \/ ReturnParagraphs
  \/ SentenceSplitRaises \/ SentenceSplitAdopted \/ SentenceSplitRejected
  \/ OcrAdopted \/ OcrRejected

Spec == Init /\ [][Next]_vars

(***************************************************************************)
(* clean_text applied twice.                                               *)
(***************************************************************************)
InitClean ==
  /\ ExtractIdle /\ RiskIdle /\ TextIdle /\ AmbIdle /\ AppIdle
  /\ raw \in CleanInputs
  /\ once = <<>> /\ twice = <<>> /\ cpc = "start"

CleanOnce ==
  /\ cpc = "start"
  /\ once' = clean_text(raw)
  /\ cpc' = "once"
  /\ UNCHANGED <<raw, twice, extractVars, riskVars, textVars, ambVars, appVars>>

CleanTwice ==
  /\ cpc = "once"
  /\ twice' = clean_text(once)
  /\ cpc' = "twice"
  /\ UNCHANGED <<raw, once, extractVars, riskVars, textVars, ambVars, appVars>>

NextClean == CleanOnce \/ CleanTwice

SpecClean == InitClean /\ [][NextClean]_vars
(***************************************************************************)
(* assess_risk on a clause, and again after a critical red-flag phrase is  *)
(* appended to the clause.  A clause is made of up to MaxPhrases phrases.  *)
(***************************************************************************)
Phrases ==
  { <<"The company may", "terminate", "this agreement">>,
    <<"at", "any", "time">>,
    <<"without", "notice">>,
    <<"Employee", "shall", "not", "compete">>,
    <<"with the Employer for 2 years", "after", "termination">>,
    <<"confidential", "information">>,
    <<"in", "perpetuity">>,
    <<"salary">>,
    <<"Rs.">>,
    <<"unlimited", "liability">>,
    <<"arbitration", "by", "a", "sole", "arbitrator", "appointed", "by">>,
    <<"irrevocable">>,
    <<"reasonable">>,
    <<"materials">>,
    <<"the parties agree">> }

RiskTexts == { Flatten(ps) : ps \in UNION { [1..n -> Phrases] : n \in 0..MaxPhrases } }

InitRisk ==
  /\ ExtractIdle /\ CleanIdle /\ TextIdle /\ AmbIdle /\ AppIdle
  /\ clause \in RiskTexts
  /\ risk = NoAssessment /\ before = NoAssessment /\ rpc = "start"

\* risk = assess_risk(clause)
AssessRisk ==
  /\ rpc = "start"
  /\ risk' = assess_risk(clause)
  /\ rpc' = "assessed"
  /\ UNCHANGED <<clause, before, extractVars, cleanVars, textVars, ambVars, appVars>>

\* a critical red-flag phrase is appended to the clause, which is assessed
\* again
AppendRedFlag ==
  /\ rpc = "assessed"
  /\ \E f \in 1..Len(critical_red_flags) :
        clause' = clause \o critical_red_flags[f]
  /\ before' = risk
  /\ risk' = assess_risk(clause')
  /\ rpc' = "reassessed"
  /\ UNCHANGED <<extractVars, cleanVars, textVars, ambVars, appVars>>

NextRisk == AssessRisk \/ AppendRedFlag

SpecRisk == InitRisk /\ [][NextRisk]_vars

(***************************************************************************)
(* guess_clause_type and analyze_clause_quality on a text of up to         *)
(* MaxTerms terms joined by single spaces.                                 *)
(***************************************************************************)
Terms == Keywords \cup {REFUND, RENT, SHORT, DOT}

Samples ==
  { Join([i \in 1..Len(ts) |-> <<ts[i]>>]) :
      ts \in UNION { [1..n -> Terms] : n \in 0..MaxTerms } }

InitText ==
  /\ ExtractIdle /\ CleanIdle /\ RiskIdle /\ AmbIdle /\ AppIdle
  /\ sample \in Samples
  /\ hint = "" /\ checked = NoQuality

\* hint = guess_clause_type(sample)
GuessType ==
  /\ hint = ""
  /\ hint' = guess_clause_type(sample)
  /\ UNCHANGED <<sample, checked, extractVars, cleanVars, riskVars, ambVars, appVars>>

\* checked = analyze_clause_quality(sample)
AnalyzeQuality ==
  /\ checked = NoQuality
  /\ checked' = analyze_clause_quality(sample)
  /\ UNCHANGED <<sample, hint, extractVars, cleanVars, riskVars, ambVars, appVars>>

NextText == GuessType \/ AnalyzeQuality

SpecText == InitText /\ [][NextText]_vars

(***************************************************************************)
(* detect_ambiguity and analyze_ambiguity on a clause text of up to        *)
(* MaxAmbPhrases phrases.  The text is a sequence of words as in the risk  *)
(* scorer; categories and suggestions are sets, for list(set(...)) returns *)
(* them in no fixed order.                                                 *)
(***************************************************************************)
AMBIGUOUS_TERMS ==
  << [ term |-> <<"reasonable">>, category |-> "Subjective", severity |-> 2,
       suggestion |-> "Define objective standards or measurable criteria." ],
     [ term |-> <<"reasonably">>, category |-> "Subjective", severity |-> 2,
       suggestion |-> "Specify exact conditions instead of subjective judgment." ],
     [ term |-> <<"best", "efforts">>, category |-> "Obligation", severity |-> 3,
       suggestion |-> "Replace with clearly defined obligations or milestones." ],
     [ term |-> <<"commercially", "reasonable">>, category |-> "Subjective",
       severity |-> 3,
       suggestion |-> "Define industry benchmarks or financial limits." ],
     [ term |-> <<"from", "time", "to", "time">>, category |-> "Timeline",
       severity |-> 2, suggestion |-> "Specify frequency or fixed intervals." ],
     [ term |-> <<"as", "soon", "as", "possible">>, category |-> "Timeline",
       severity |-> 3, suggestion |-> "Replace with a defined number of days." ],
     [ term |-> <<"material">>, category |-> "Scope", severity |-> 2,
       suggestion |-> "Define what constitutes a material breach or change." ],
     [ term |-> <<"significant">>, category |-> "Scope", severity |-> 2,
       suggestion |-> "Quantify what is considered significant." ],
     [ term |-> <<"substantial">>, category |-> "Scope", severity |-> 2,
       suggestion |-> "Replace with numerical or objective thresholds." ],
     [ term |-> <<"at", "its", "discretion">>, category |-> "Discretion",
       severity |-> 3,
       suggestion |-> "Limit discretion with conditions or mutual consent." ] >>

\* the entries of AMBIGUOUS_TERMS whose term is in the lower-cased text
TermsIn(clause_text) ==
  LET t == Lower(clause_text)
      Occurs(m) == In(m.term, t)
  IN SelectSeq(AMBIGUOUS_TERMS, Occurs)

\* detect_ambiguity
detect_ambiguity(clause_text) ==
  IF clause_text = <<>> THEN <<>>
  ELSE LET hits == TermsIn(clause_text)
       IN [i \in 1..Len(hits) |-> hits[i].term]

RECURSIVE SeveritySum(_)
\* severity_score += meta["severity"] over the entries that matched
SeveritySum(hits) ==
  IF hits = <<>> THEN 0 ELSE Head(hits).severity + SeveritySum(Tail(hits))

\* the risk level mapping with the bounds excluded
RiskTier_Above(severity_score) ==
  IF severity_score > 6 THEN "High"
  ELSE IF severity_score > 3 THEN "Medium"
  ELSE "Low"

\* the risk level mapping of analyze_ambiguity
RiskTier(severity_score) ==
  IF severity_score >= 6 THEN "High"
  ELSE IF severity_score >= 3 THEN "Medium"
  ELSE "Low"

VagueLanguage ==
  "Clause contains vague language that may lead to multiple interpretations and potential disputes."
NoAmbiguousLanguage == "No ambiguous legal language detected."

\* analyze_ambiguity
analyze_ambiguity(clause_text) ==
  IF clause_text = <<>>
  THEN [ found_terms |-> <<>>, severity_score |-> 0, risk_level |-> "Low",
         categories |-> {}, suggestions |-> {},
         explanation |-> "No clause text provided." ]
  ELSE LET hits == TermsIn(clause_text)
           severity_score == SeveritySum(hits)
       IN [ found_terms |-> [i \in 1..Len(hits) |-> hits[i].term],
            severity_score |-> severity_score,
            risk_level |-> RiskTier(severity_score),
            categories |-> { hits[i].category : i \in 1..Len(hits) },
            suggestions |-> { hits[i].suggestion : i \in 1..Len(hits) },
            explanation |-> IF hits # <<>> THEN VagueLanguage
                            ELSE NoAmbiguousLanguage ]

AmbPhrases ==
  { <<"reasonable">>,
    <<"reasonably">>,
    <<"Best", "Efforts">>,
    <<"commercially", "reasonable">>,
    <<"from", "time", "to", "time">>,
    <<"as", "soon", "as", "possible">>,
    <<"materials">>,
    <<"significant">>,
    <<"substantially">>,
    <<"at", "its", "discretion">>,
    <<"best">>,
    <<"efforts">>,
    <<"the parties agree">> }

AmbTexts ==
  { Flatten(ps) : ps \in UNION { [1..n -> AmbPhrases] : n \in 0..MaxAmbPhrases } }

InitAmbiguity ==
  /\ passage \in AmbTexts
  /\ found = <<>> /\ analysis = NoAnalysis /\ apc = "start"
  /\ ExtractIdle /\ CleanIdle /\ RiskIdle /\ TextIdle /\ AppIdle

\* found = detect_ambiguity(passage)
DetectAmbiguity ==
  /\ apc = "start"
  /\ found' = detect_ambiguity(passage)
  /\ apc' = "detected"
  /\ UNCHANGED <<passage, analysis, extractVars, cleanVars, riskVars, textVars,
                 appVars>>

\* analysis = analyze_ambiguity(passage)
AnalyzeAmbiguity ==
  /\ apc = "detected"
  /\ analysis' = analyze_ambiguity(passage)
  /\ apc' = "analyzed"
  /\ UNCHANGED <<passage, found, extractVars, cleanVars, riskVars, textVars,
                 appVars>>

NextAmbiguity == DetectAmbiguity \/ AnalyzeAmbiguity

SpecAmbiguity == InitAmbiguity /\ [][NextAmbiguity]_vars

(***************************************************************************)
(* app.py: the main flow from the text of the uploaded file to the end of  *)
(* the clause-by-clause loop.  extract_clauses runs step by step as above; *)
(* the loop records the calls of the explanation generator and of the      *)
(* rewrite generator and the header of each clause shown.                  *)
(***************************************************************************)
\* the words of a chunk as the risk scorer and the detectors read them; a
\* chunk without a keyword of theirs is one word; punctuation, digits and
\* spaces hold no word
ClauseWords(t) ==
  CASE t = FIRE -> <<"The company may", "terminate", "this agreement",
                     "at", "any", "time", "without", "notice">>
    [] t = INDEMN -> <<"The tenant shall", "indemnify", "the owner against all",
                       "losses">>
    [] t = QUIT -> <<"terminate", "without", "notice">>
    [] t \in Chunks \ {FIRE, INDEMN, QUIT} -> <<t>>
    [] OTHER -> <<>>

\* the words of a clause text
WordsOf(clause_text) ==
  Flatten([i \in 1..Len(clause_text) |-> ClauseWords(clause_text[i])])

\* check_indian_law_issues(clause_text, contract_type=None)
check_indian_law_issues(clause_text) ==
  IF clause_text = <<>> THEN <<>>
  ELSE LET t == Lower(WordsOf(clause_text))
       IN (IF In(<<"non-compete">>, t) \/ In(<<"non", "compete">>, t)
           THEN <<"Post-employment non-compete clauses are generally void under Section 27 of the Indian Contract Act.">>
           ELSE <<>>)
          \o
          (IF \/ In(<<"unlimited", "liability">>, t)
              \/ In(<<"no", "maximum", "limit">>, t)
              \/ In(<<"fully", "liable">>, t)
           THEN <<"Unlimited liability without a cap may be legally risky and unenforceable.">>
           ELSE <<>>)

\* dict.get(key, default)
Get(d, key, default) == IF key \in DOMAIN d THEN d[key] ELSE default

\* the loop reading the key the extractor writes
ClauseType_FromHint(record) == Get(record, "type_hint", "General")

\* clause_type = clause.get("type", "General")
ClauseType(record) == Get(record, "type", "General")

\* clause_text = clause.get("text", "").strip()
ClauseText(record) == Strip(Get(record, "text", <<>>))

MinClauseLen == 30

AppSegments ==
  { <<HEAD, NL>>, <<DIGITS, DOT, SP>>, <<NL>>,
    <<EMP1, DOT, SP>>, <<EMP2, DOT, SP>>,
    <<FIRE, DOT, SP>>, <<INDEMN, DOT, NL>>, <<QUIT, DOT, NL>> }

AppInputs ==
  { Flatten(ss) : ss \in UNION { [1..n -> AppSegments] : n \in 0..MaxSegs } }

\* a file was uploaded and read
InitApp ==
  /\ input \in AppInputs
  /\ pc = "start" /\ text = <<>> /\ lines = <<>> /\ li = 1
  /\ clauses = <<>> /\ current = <<>> /\ title = None /\ clause_id = 1
  /\ source = "paragraph" /\ result = <<>> /\ raised = FALSE
  /\ app = "extract" /\ ci = 1
  /\ explained = <<>> /\ rewritten = <<>> /\ headers = <<>>
  /\ CleanIdle /\ RiskIdle /\ TextIdle /\ AmbIdle

\* if not text.strip(): st.stop()
NoText ==
  /\ app = "extract" /\ pc = "start"
  /\ Strip(input) = <<>>
  /\ app' = "stopped"
  /\ UNCHANGED <<ci, explained, rewritten, headers, extractVars, cleanVars,
                 riskVars, textVars, ambVars>>

\* clauses = extract_clauses(text): the call starts
CallExtract ==
  /\ app = "extract"
  /\ Strip(input) # <<>>
  /\ Normalize

\* if not clauses: st.stop()
NoClauses ==
  /\ app = "extract" /\ pc = "done" /\ ~raised
  /\ result = <<>>
  /\ app' = "stopped"
  /\ UNCHANGED <<ci, explained, rewritten, headers, extractVars, cleanVars,
                 riskVars, textVars, ambVars>>

\* the clause count and the key summary are shown; the loop starts
BeginLoop ==
  /\ app = "extract" /\ pc = "done" /\ ~raised
  /\ result # <<>>
  /\ app' = "loop" /\ ci' = 1
  /\ UNCHANGED <<explained, rewritten, headers, extractVars, cleanVars,
                 riskVars, textVars, ambVars>>

\* if len(clause_text) < 30: continue
SkipShortClause ==
  /\ app = "loop" /\ ci <= Len(result)
  /\ StrLen(ClauseText(result[ci])) < MinClauseLen
  /\ ci' = ci + 1
  /\ UNCHANGED <<app, explained, rewritten, headers, extractVars, cleanVars,
                 riskVars, textVars, ambVars>>

\* the body of the loop for a clause of 30 characters or more
AnalyzeClause ==
  /\ app = "loop" /\ ci <= Len(result)
  /\ LET clause_text == ClauseText(result[ci])
         clause_type == ClauseType(result[ci])
         risk_level == Get(assess_risk(WordsOf(clause_text)), "risk_level", "Low")
         law_issues == check_indian_law_issues(clause_text)
     IN /\ StrLen(clause_text) >= MinClauseLen
        /\ explained' = Append(explained,
             [ clause_text |-> clause_text, clause_type |-> clause_type,
               forced_risk |-> risk_level ])
        /\ rewritten' =
             IF risk_level \in {"Medium", "High"}
             THEN Append(rewritten,
                    [ clause_text |-> clause_text, risk_level |-> risk_level,
                      clause_type |-> clause_type,
                      ambiguity |-> detect_ambiguity(WordsOf(clause_text)),
                      law_issues |-> law_issues ])
             ELSE rewritten
        /\ headers' = Append(headers,
             [ i |-> ci, clause_type |-> clause_type, risk_level |-> risk_level ])
  /\ ci' = ci + 1
  /\ UNCHANGED <<app, extractVars, cleanVars, riskVars, textVars, ambVars>>

\* the loop has gone through every clause
EndLoop ==
  /\ app = "loop" /\ ci > Len(result)
  /\ app' = "end"
  /\ UNCHANGED <<ci, explained, rewritten, headers, extractVars, cleanVars,
                 riskVars, textVars, ambVars>>

NextApp ==
  \/ NoText
  \/ CallExtract
  \/ BlankLine \/ HeadingLine \/ NumberedLine \/ BodyLine
  \/ LastBlock
  \/ ReturnParagraphs
  \/ SentenceSplitRaises \/ SentenceSplitAdopted \/ SentenceSplitRejected
  \/ OcrAdopted \/ OcrRejected
  \/ NoClauses \/ BeginLoop \/ SkipShortClause \/ AnalyzeClause \/ EndLoop

SpecApp == InitApp /\ [][NextApp]_vars
(***************************************************************************)
(* Properties of extract_clauses (specification Spec).                     *)
(***************************************************************************)
\* a occurs in b as a run of side-by-side tokens
OccursIn(a, b) ==
  \E i \in 0..(Len(b) - Len(a)) : SubSeq(b, i + 1, i + Len(a)) = a

\* the non-blank lines of the cleaned text, stripped, in order (lines
\* holds the lines of the cleaned text from the first step on)
NonBlankLines ==
  LET ls == lines
      F[i \in 0..Len(ls)] ==
        IF i = 0 THEN <<>>
        ELSE IF Strip(ls[i]) # <<>> THEN Append(F[i - 1], Strip(ls[i]))
        ELSE F[i - 1]
  IN F[Len(ls)]

\* the non-blank lines that are no heading lines
NonHeadingLines == SelectSeq(NonBlankLines, LAMBDA l : ~_is_heading(l))

\* the text fields of a list of records, joined in order by single spaces
Texts(recs) == Join([i \in 1..Len(recs) |-> recs[i].text])

Returned == pc = "done" /\ ~raised

FallbackSources == {"sentence-split", "ocr-fallback"}

\* C1: extract_clauses never raises: every call ends by returning a list
\* of records.
C1_NeverRaises == pc = "done" => ~raised

\* C2 as stated: for a non-empty normalized text the returned list is not
\* empty and every non-blank line, heading lines included, occurs in the
\* joined texts of the returned records.
C2_EveryLineCovered ==
  (Returned /\ clean_text(input) # <<>>) =>
     /\ result # <<>>
     /\ \A i \in 1..Len(NonBlankLines) : OccursIn(NonBlankLines[i], Texts(result))

\* C2 amended: when the text has a non-blank line that is no heading line,
\* the paragraph strategy yields a non-empty list and so does every return;
\* the texts of the paragraph-strategy records, joined in order, are the
\* non-blank non-heading lines joined in order (heading lines are kept as
\* titles only); and a returned list that holds no fallback record is the
\* paragraph-strategy list.
C2_BodyLinesCovered ==
  /\ pc \in {"paragraphs", "ocr", "done"} =>
        /\ (NonHeadingLines # <<>>) = (clauses # <<>>)
        /\ Texts(clauses) = Join(NonHeadingLines)
  /\ Returned =>
        /\ NonHeadingLines # <<>> => result # <<>>
        /\ (\A i \in 1..Len(result) : result[i].source \notin FallbackSources)
              => result = clauses

\* a text with a body line, a heading line and a second body line was
\* split into two paragraph-strategy records, the second under the heading
C2_Witness ==
  /\ Returned /\ Len(result) = 2 /\ result = clauses
  /\ Len(NonBlankLines) = 3 /\ Len(NonHeadingLines) = 2
  /\ result[2].title = NonBlankLines[2]

\* C3: the record at position i of a returned list has clause_id i.
C3_IdsArePositions ==
  Returned => \A i \in 1..Len(result) : result[i].clause_id = i
(***************************************************************************)
(* Properties of assess_risk (specification SpecRisk).                     *)
(***************************************************************************)
Assessed == rpc \in {"assessed", "reassessed"}

\* "Employee shall not compete with the Employer for 2 years after
\* termination."
Scenario3 ==
  <<"Employee", "shall", "not", "compete",
    "with the Employer for 2 years", "after", "termination">>

\* "The company may terminate this agreement at any time without notice."
Scenario2 ==
  <<"The company may", "terminate", "this agreement",
    "at", "any", "time", "without", "notice">>

\* C4: a clause that holds 'shall not compete', such as the clause of
\* scenario 3, is typed Non-Compete, scores at least 35 and is rated Medium
\* or High.
C4_ShallNotCompeteIsNonCompete ==
  (Assessed /\ In(<<"shall", "not", "compete">>, Lower(clause))) =>
     /\ risk.type = "Non-Compete"
     /\ risk.score >= 35
     /\ risk.risk_level \in {"Medium", "High"}

\* C5: the score of a clause with a critical red-flag phrase appended is at
\* least the score of the clause without it.
C5_RedFlagNeverLowersScore ==
  rpc = "reassessed" => risk.score >= before.score

\* appending 'unlimited liability' turned a Dispute Resolution clause with
\* the arbitrator boost and a red flag into an Indemnity & Liability clause
\* of the same score
C5_Witness ==
  /\ rpc = "reassessed"
  /\ before.type = "Dispute Resolution" /\ risk.type = "Indemnity & Liability"
  /\ "Critical" \in Range(before.tags)
  /\ before.score = risk.score

\* C6: score >= 60, High and Immediate go together; so do 30 <= score < 60,
\* Medium and Recommended; and score < 30, Low and Optional.
C6_TiersMatchScore ==
  Assessed =>
     /\ (risk.score >= 60) = (risk.risk_level = "High")
     /\ (risk.risk_level = "High") = (risk.negotiation_priority = "Immediate")
     /\ (risk.score >= 30 /\ risk.score < 60) = (risk.risk_level = "Medium")
     /\ (risk.risk_level = "Medium") = (risk.negotiation_priority = "Recommended")
     /\ (risk.score < 30) = (risk.risk_level = "Low")
     /\ (risk.risk_level = "Low") = (risk.negotiation_priority = "Optional")

\* a clause scored exactly 60 is rated High
C6_Witness ==
  rpc = "assessed" /\ risk.score = 60 /\ risk.risk_level = "High"

\* C7: a clause typed Termination that holds 'without notice' scores at
\* least 70 and is rated High with priority Immediate.
C7_TerminationWithoutNotice ==
  (/\ Assessed
   /\ classify_clause(clause) = "Termination"
   /\ In(<<"without", "notice">>, Lower(clause))) =>
     /\ risk.type = "Termination"
     /\ risk.score >= 70
     /\ risk.risk_level = "High"
     /\ risk.negotiation_priority = "Immediate"

\* the clause of scenario 2 was assessed: Termination, 70, High, Immediate
C7_Witness ==
  /\ rpc = "assessed" /\ clause = Scenario2
  /\ risk.type = "Termination" /\ risk.score = 70
  /\ risk.risk_level = "High" /\ risk.negotiation_priority = "Immediate"
(***************************************************************************)
(* Properties of the fallbacks and of a heading with one body line         *)
(* (specification Spec).                                                   *)
(***************************************************************************)
\* the block cut at whitespace that follows a period and precedes a
\* clause-initiating phrase: the pieces between the cuts
Pieces ==
  LET all == SentenceSplit(clauses[1].text, 1, <<>>)
  IN [k \in 1..((Len(all) + 1) \div 2) |-> Strip(all[2 * k - 1].text)]

\* the pieces of at least 40 characters
Surviving == SelectSeq(Pieces, LAMBDA f : StrLen(f) >= SentenceMinLen)

SentenceSplitReturned ==
  Returned /\ result # <<>> /\ result[1].source = "sentence-split"

\* C8: when the paragraph strategy yields exactly one clause, the
\* sentence-split result is returned exactly when at least 2 pieces of 40 or
\* more characters are left, and the returned records are then these
\* pieces in order, each with source "sentence-split".
C8_SentenceSplitAdoption ==
  (pc = "done" /\ Len(clauses) = 1) =>
     /\ SentenceSplitReturned = (Len(Surviving) >= 2)
     /\ SentenceSplitReturned =>
           /\ [i \in 1..Len(result) |-> result[i].text] = Surviving
           /\ \A i \in 1..Len(result) : result[i].source = "sentence-split"

\* the text is a heading line followed by one body line
HeadingThenBody ==
  /\ Len(NonBlankLines) = 2
  /\ _is_heading(NonBlankLines[1])
  /\ ~_is_heading(NonBlankLines[2]) /\ ~number_pattern(NonBlankLines[2])

\* the line holds the word rent / a word of the deposit and refund rule
MentionsRent(l) == \E i \in 1..Len(l) : l[i] \in {RENT, REFUND}
MentionsRefund(l) == \E i \in 1..Len(l) : l[i] = REFUND

\* the line holds nothing a fallback splits at: no sentence-ending mark
\* followed by whitespace and no character of the OCR split class
NoSplitPoint(l) ==
  /\ \A i \in 1..(Len(l) - 1) : ~(l[i] \in SentenceEnd /\ IsSpace(l[i + 1]))
  /\ \A i \in 1..Len(l) : l[i] \notin OcrBreak

\* C9 as stated: a heading line followed by one body line gives exactly
\* one clause titled with the heading, typed Payment & Financial Terms when
\* the body mentions rent, with an action other than Review Required only
\* if the text has at least 50 characters.
C9_HeadingAndBody ==
  (pc = "done" /\ HeadingThenBody) =>
     /\ ~raised
     /\ Len(result) = 1
     /\ result[1].title = NonBlankLines[1]
     /\ MentionsRent(NonBlankLines[2]) =>
           result[1].type_hint = "Payment & Financial Terms"
     /\ result[1].action # "Review Required" => StrLen(result[1].text) >= ShortLen
     /\ StrLen(result[1].text) < ShortLen => result[1].action = "Review Required"

\* C9 amended: when neither line holds a point a fallback splits at, the
\* call returns exactly one clause, titled with the heading line and with
\* the body line as text; a body that mentions rent is typed Payment &
\* Financial Terms unless it also holds a word of the deposit and refund
\* rule, which comes first and types it Security Deposit & Refund; the
\* action is other than Review Required only if the text has at least 50
\* characters.
C9_HeadingAndSingleSentence ==
  (/\ pc = "done" /\ HeadingThenBody
   /\ NoSplitPoint(NonBlankLines[1]) /\ NoSplitPoint(NonBlankLines[2])) =>
     /\ ~raised
     /\ Len(result) = 1
     /\ result[1].title = NonBlankLines[1]
     /\ result[1].text = NonBlankLines[2]
     /\ MentionsRent(NonBlankLines[2]) =>
           result[1].type_hint =
              IF MentionsRefund(NonBlankLines[2])
              THEN "Security Deposit & Refund" ELSE "Payment & Financial Terms"
     /\ result[1].action # "Review Required" => StrLen(result[1].text) >= ShortLen
     /\ StrLen(result[1].text) < ShortLen => result[1].action = "Review Required"

\* scenario 1: 'SECTION 1' and a rent sentence of under 50 characters gave
\* one clause titled SECTION 1, typed Payment & Financial Terms, to review
C9_Witness ==
  /\ Returned
  /\ NonBlankLines = << <<HEAD>>, <<RENT, DOT>> >>
  /\ Len(result) = 1 /\ result[1].title = <<HEAD>>
  /\ result[1].type_hint = "Payment & Financial Terms"
  /\ result[1].action = "Review Required"

(***************************************************************************)
(* Properties of clean_text (specification SpecClean).                     *)
(***************************************************************************)
\* s holds nothing a step of clean_text removes: no tab, no carriage
\* return, no run of 3 newlines, no run of 2 spaces, no whitespace at
\* either end
Normalized(s) ==
  /\ \A i \in 1..Len(s) : s[i] \notin {TAB, CR}
  /\ \A i \in 1..(Len(s) - 2) : ~(s[i] = NL /\ s[i + 1] = NL /\ s[i + 2] = NL)
  /\ \A i \in 1..(Len(s) - 1) : ~(s[i] = SP /\ s[i + 1] = SP)
  /\ s # <<>> => ~IsSpace(s[1]) /\ ~IsSpace(s[Len(s)])

\* C10: clean_text of a cleaned text is that text, and a cleaned text
\* holds none of the patterns the steps remove.
C10_CleanIsIdempotent ==
  /\ cpc \in {"once", "twice"} => Normalized(once)
  /\ cpc = "twice" => twice = once

\* a text with a tab next to a space was cleaned twice, and cleaning
\* changed it without emptying it
C10_Witness ==
  /\ cpc = "twice" /\ once # raw /\ once # <<>>
  /\ \E i \in 1..(Len(raw) - 1) : raw[i] = SP /\ raw[i + 1] = TAB
  /\ Len(once) >= 3

(***************************************************************************)
(* C11: empty and blank input.                                             *)
(***************************************************************************)
\* the text holds nothing but whitespace characters
Blank(s) == \A i \in 1..Len(s) : IsSpace(s[i])

\* C11: for an input that is empty or holds only whitespace and blank
\* lines, the paragraph strategy leaves no clause, so neither fallback is
\* attempted (the sentence split needs one clause, the OCR split is reached
\* only after it), nothing is raised and the empty sequence is returned.
C11_BlankInputReturnsEmpty ==
  (pc # "idle" /\ Blank(input)) =>
    /\ ~raised
    /\ clauses = <<>> /\ current = <<>>
    /\ pc = "paragraphs" => ~CascadeRuns
    /\ pc # "ocr"
    /\ pc = "done" => result = <<>>

\* an input of tabs and newlines only was read line by line and the empty
\* sequence was returned
C11_Witness ==
  /\ pc = "done" /\ ~raised /\ result = <<>>
  /\ Blank(input)
  /\ \E i \in 1..Len(input) : input[i] = TAB
  /\ \E i \in 1..Len(input) : input[i] = NL
  /\ Len(lines) >= 1

(***************************************************************************)
(* C12: no record has an empty text.                                       *)
(***************************************************************************)
\* the text of every record of the list is non-empty after trimming
TextsNonEmpty(recs) == \A i \in 1..Len(recs) : Strip(recs[i].text) # <<>>

\* a step of the line loop or the final flush adds at most one record, and
\* adds it only for a non-empty buffer: the record of that buffer
FlushOnlyNonEmptyBuffer ==
  (pc = "lines" /\ clauses' # clauses) =>
    /\ current # <<>>
    /\ Len(clauses') = Len(clauses) + 1
    /\ SubSeq(clauses', 1, Len(clauses)) = clauses
    /\ clauses'[Len(clauses')].text = Join(current)

\* C12: every record, collected by the paragraph strategy or returned under
\* any strategy, has a text that is non-empty after trimming; a heading or
\* numbered line met while the buffer is empty emits no record, and the
\* final flush emits a record only for a non-empty buffer.
C12_NoEmptyText ==
  /\ [](TextsNonEmpty(clauses) /\ (Returned => TextsNonEmpty(result)))
  /\ [][FlushOnlyNonEmptyBuffer]_vars

\* a heading line and then a numbered line were met with an empty buffer:
\* of the two non-blank lines only the numbered one is in a record
C12_Witness ==
  /\ Returned /\ Len(NonBlankLines) = 2
  /\ _is_heading(NonBlankLines[1])
  /\ ~_is_heading(NonBlankLines[2]) /\ number_pattern(NonBlankLines[2])
  /\ Len(result) = 1 /\ result[1].source = "numbered"
  /\ result[1].text = NonBlankLines[2]

(***************************************************************************)
(* C13: title and source.                                                  *)
(***************************************************************************)
Sources == {"paragraph", "heading", "numbered", "sentence-split", "ocr-fallback"}

\* a body line: neither blank, nor a heading line, nor a numbered line
IsBodyLine(l) == l # <<>> /\ ~_is_heading(l) /\ ~number_pattern(l)

\* the title of record r is a heading line of the text, the body of r is
\* the run of body lines right after it, and that run ends at the end of
\* the text or at the next heading or numbered line
TitleIsPrecedingHeading(r) ==
  LET L == NonBlankLines
  IN \E h \in 1..Len(L) : \E n \in 1..(Len(L) - h) :
       /\ _is_heading(L[h]) /\ r.title = L[h]
       /\ \A k \in (h + 1)..(h + n) : IsBodyLine(L[k])
       /\ r.text = Join(SubSeq(L, h + 1, h + n))
       /\ h + n < Len(L) => ~IsBodyLine(L[h + n + 1])

TitleMatchesSource(recs) ==
  \A i \in 1..Len(recs) :
    /\ recs[i].source \in Sources
    /\ recs[i].title # None <=> recs[i].source = "heading"
    /\ recs[i].source = "heading" => TitleIsPrecedingHeading(recs[i])

\* C13: in every record the title is None when the source is "numbered",
\* "sentence-split", "ocr-fallback" or "paragraph"; when the source is
\* "heading" the title is the most recent heading line before the body of
\* the clause.  The title is not None exactly when the source is "heading".
C13_TitleIffHeading ==
  /\ pc \in {"paragraphs", "ocr", "done"} => TitleMatchesSource(clauses)
  /\ Returned => TitleMatchesSource(result)

\* two heading lines in a row and then a body line: the record of the body
\* carries the second heading line, the most recent one, as its title
C13_Witness ==
  /\ Returned /\ Len(NonBlankLines) = 3
  /\ _is_heading(NonBlankLines[1]) /\ _is_heading(NonBlankLines[2])
  /\ NonBlankLines[1] # NonBlankLines[2]
  /\ IsBodyLine(NonBlankLines[3])
  /\ Len(result) = 1 /\ result[1].source = "heading"
  /\ result[1].title = NonBlankLines[2]

(***************************************************************************)
(* C14: when the fallbacks run.                                            *)
(***************************************************************************)
\* the text holds a heading line or a numbered line
HasHeadingOrNumberedLine ==
  \E i \in 1..Len(NonBlankLines) :
    _is_heading(NonBlankLines[i]) \/ number_pattern(NonBlankLines[i])

HasFallbackRecord(recs) ==
  \E i \in 1..Len(recs) : recs[i].source \in FallbackSources

\* C14 as stated: for every text that holds a heading line or a numbered
\* line the OCR fallback is never reached and the records returned are the
\* paragraph-strategy records, none of them with source "sentence-split"
\* or "ocr-fallback".
C14_NoFallbackUnderHeadingOrNumber ==
  HasHeadingOrNumberedLine =>
    /\ pc # "ocr"
    /\ Returned => (result = clauses /\ ~HasFallbackRecord(result))

\* C14: the fallbacks run only for a paragraph-strategy result of exactly
\* one clause; for a result of no clause or of two or more clauses the
\* records returned are the paragraph-strategy records, none of them with
\* source "sentence-split" or "ocr-fallback".  A heading line or a
\* numbered line in the text does not keep the fallbacks from running.
C14_FallbackOnlyForOneClause ==
  /\ pc = "ocr" => Len(clauses) = 1
  /\ raised => Len(clauses) = 1
  /\ (Returned /\ Len(clauses) # 1) =>
       (result = clauses /\ ~HasFallbackRecord(result))
  /\ (Returned /\ HasFallbackRecord(result)) => Len(clauses) = 1
  /\ pc \in {"paragraphs", "ocr", "done"} => ~HasFallbackRecord(clauses)

\* a text that starts with a heading line gave one paragraph-strategy
\* clause titled by it, and the records returned are fallback records
C14_Witness ==
  /\ Returned /\ NonBlankLines # <<>> /\ _is_heading(NonBlankLines[1])
  /\ Len(clauses) = 1 /\ clauses[1].source = "heading"
  /\ Len(result) >= 2
  /\ \A i \in 1..Len(result) : result[i].source \in FallbackSources

(***************************************************************************)
(* C15: the OCR fallback.                                                  *)
(***************************************************************************)
\* the split C15 describes: at terminal punctuation followed by whitespace,
\* or at a run of newline, bullet and dash characters
DescribedBreak == {NL, BULLET, DASH}

RECURSIVE DescribedSplit(_, _, _)
DescribedSplit(s, i, cur) ==
  IF i > Len(s) THEN <<cur>>
  ELSE IF i > 1 /\ s[i - 1] \in SentenceEnd /\ IsSpace(s[i])
  THEN <<cur>> \o DescribedSplit(s, RunEnd(s, i, Whitespace), <<>>)
  ELSE IF s[i] \in DescribedBreak
  THEN <<cur>> \o DescribedSplit(s, RunEnd(s, i, DescribedBreak), <<>>)
  ELSE DescribedSplit(s, i + 1, Append(cur, s[i]))

\* the fragments of the text of the single paragraph-strategy clause that
\* are at least 25 characters long after trimming
DescribedFragments ==
  LET ps == DescribedSplit(clauses[1].text, 1, <<>>)
      ts == [k \in 1..Len(ps) |-> Strip(ps[k])]
  IN SelectSeq(ts, LAMBDA t : StrLen(t) >= 25)

\* C15 as stated: when the paragraph strategy yielded one clause and the
\* sentence split was not adopted, the OCR fallback splits the text of that
\* clause at terminal punctuation followed by whitespace or at runs of
\* newline, bullet and dash characters, drops the fragments of fewer than
\* 25 characters, and returns the others with source "ocr-fallback" if and
\* only if at least 3 are left; otherwise it returns the single clause.
C15_OcrSplitsTheSingleClause ==
  [][ pc = "ocr" =>
        IF Len(DescribedFragments) >= 3
        THEN /\ Len(result') = Len(DescribedFragments)
             /\ \A k \in 1..Len(result') :
                  /\ result'[k].text = DescribedFragments[k]
                  /\ result'[k].source = "ocr-fallback"
        ELSE result' = clauses ]_vars

(***************************************************************************)
(* Properties of guess_clause_type and analyze_clause_quality              *)
(* (specification SpecText).                                               *)
(***************************************************************************)
\* the rules of the fixed order that the sample satisfies, by position
Satisfied == { k \in 1..Len(TypeRules) : RuleHolds(TypeRules[k], sample) }

\* C16: guess_clause_type returns the label of the first rule, in the
\* order of the 11 rules, that the text satisfies: for a text that
\* satisfies rules i and j with i < j the label is that of rule i or of an
\* earlier satisfied rule, and the label is "General" exactly when no rule
\* is satisfied.
C16_FirstRuleWins ==
  hint # "" =>
    LET sat == Satisfied
    IN /\ hint = "General" <=> sat = {}
       /\ hint # "General" =>
            \E k \in sat : hint = TypeRules[k] /\ \A j \in sat : k <= j
       /\ \A i \in sat : \A j \in sat :
            i < j => \E k \in sat : k <= i /\ hint = TypeRules[k]

\* a text that satisfies the Termination rule, the Notice & Possession
\* rule, the Non-Compete rule and a rule after them, and no rule before
\* them, was labelled Termination
C16_Witness ==
  /\ hint = "Termination"
  /\ LET sat == Satisfied
     IN {5, 6, 7} \subseteq sat /\ \E k \in sat : k > 7

(***************************************************************************)
(* C17: the type of a clause and the branch taken for it.                  *)
(***************************************************************************)
\* assess_risk has returned the assessment of a clause of RiskTexts
AssessedOnce == rpc = "assessed"

\* the labels of the keyword groups in the order C17 gives them
GroupLabels ==
  << "Termination", "Non-Compete", "Confidentiality", "Compensation",
     "Indemnity & Liability", "Dispute Resolution" >>

\* the text holds a keyword of group g
GroupHolds(g, t) ==
  CASE g = 1 -> AnyIn(TerminationKeys, t)
    [] g = 2 -> AnyIn(NonCompeteKeys, t)
    [] g = 3 -> AnyIn(ConfidentialityKeys, t)
    [] g = 4 -> AnyIn(CompensationKeys, t)
    [] g = 5 -> AnyIn(IndemnityKeys, t)
    [] g = 6 -> AnyIn(DisputeKeys, t)

\* the groups of which the clause holds a keyword, by position
Holding ==
  LET t == Lower(clause)
  IN { g \in 1..6 : GroupHolds(g, t) }

\* the types whose branch has left its mark on an assessment: the tag or
\* the reason that the branch of the type, and no other rule, appends
BranchesApplied(r) ==
  LET tg == Range(r.tags)
      rs == Range(r.reasons)
  IN (IF "Employment Risk" \in tg THEN {"Termination"} ELSE {})
     \cup (IF "Post-Termination Risk" \in tg THEN {"Non-Compete"} ELSE {})
     \cup (IF "IP Protection" \in tg THEN {"Confidentiality"} ELSE {})
     \cup (IF \/ "Compensation amount is unclear or missing." \in rs
              \/ "Compensation terms are defined." \in rs
           THEN {"Compensation"} ELSE {})
     \cup (IF "Financial Exposure" \in tg THEN {"Indemnity & Liability"} ELSE {})
     \cup (IF "Legal Process" \in tg THEN {"Dispute Resolution"} ELSE {})
     \cup (IF "General contractual obligation." \in rs THEN {"General"} ELSE {})

\* C17: the type of an assessment is the label of the first keyword group,
\* in the order Termination, Non-Compete, Confidentiality, Compensation,
\* Indemnity & Liability, Dispute Resolution, of which the clause holds a
\* keyword, and "General" exactly when it holds none; it equals
\* classify_clause of the same text, and the branch of that type and of no
\* other type is applied.
C17_TypeIsFirstGroup ==
  AssessedOnce =>
    LET held == Holding
    IN /\ risk.type = "General" <=> held = {}
       /\ risk.type # "General" =>
            \E g \in held :
              risk.type = GroupLabels[g] /\ \A h \in held : g <= h
       /\ risk.type = classify_clause(clause)
       /\ BranchesApplied(risk) = {risk.type}

\* a clause with keywords of the Non-Compete, Compensation and Dispute
\* Resolution groups was typed Non-Compete
C17_Witness ==
  /\ AssessedOnce /\ Holding = {2, 4, 6}
  /\ risk.type = "Non-Compete"

(***************************************************************************)
(* C18: the score is a sum.                                                *)
(***************************************************************************)
\* the base score C18 gives for a type
BaseScore(type, t) ==
  CASE type = "Termination" -> 20
    [] type = "Non-Compete" -> 35
    [] type = "Confidentiality" -> 10
    [] type = "Compensation" -> IF AnyIn(CurrencyMarkers, t) THEN 5 ELSE 25
    [] type = "Indemnity & Liability" -> 30
    [] type = "Dispute Resolution" -> 10
    [] type = "General" -> 5

\* the boost of the branch of a type
TypeBoost(type, t) ==
  CASE type = "Termination" ->
         IF In(<<"without", "notice">>, t) \/ In(<<"immediate", "termination">>, t)
         THEN 30 ELSE 0
    [] type = "Confidentiality" ->
         IF In(<<"forever">>, t) \/ In(<<"in", "perpetuity">>, t) THEN 15 ELSE 0
    [] type = "Dispute Resolution" ->
         IF In(<<"sole", "arbitrator", "appointed", "by">>, t) THEN 20 ELSE 0
    [] OTHER -> 0

\* the ambiguity terms and the critical red flags that occur in a text
AmbiguityTermsIn(t) == { k \in DOMAIN ambiguity_terms : In(ambiguity_terms[k], t) }
RedFlagsIn(t) == { k \in DOMAIN critical_red_flags : In(critical_red_flags[k], t) }

\* C18: the score is the base score of the type, plus the boost of the
\* branch of the type, plus 10 when at least one ambiguity term occurs,
\* plus 20 when at least one critical red flag occurs: each boost is added
\* at most once however many terms occur, and the last two are added
\* whatever the type.
C18_ScoreIsSum ==
  AssessedOnce =>
    LET t == Lower(clause)
    IN risk.score = BaseScore(risk.type, t) + TypeBoost(risk.type, t)
                    + (IF AmbiguityTermsIn(t) # {} THEN 10 ELSE 0)
                    + (IF RedFlagsIn(t) # {} THEN 20 ELSE 0)

\* a clause with two ambiguity terms and a critical red flag scored the
\* base of its type plus 10 plus 20
C18_Witness ==
  /\ AssessedOnce
  /\ Cardinality(AmbiguityTermsIn(Lower(clause))) >= 2
  /\ RedFlagsIn(Lower(clause)) # {}
  /\ risk.type = "General" /\ risk.score = 35

(***************************************************************************)
(* C19: the returned reasons, suggestions and tags.                        *)
(***************************************************************************)
\* what the rules that fire append for the clause, rule by rule in the
\* order of evaluation: the branch of the type, the ambiguity rule, the
\* red-flag rule
Fired ==
  LET t == Lower(clause)
  IN <<TypeBranch(risk.type, t), AmbiguityPenalty(t), RedFlagBoost(t)>>

\* the three lists of the strings the rules that fired appended
FiredLists ==
  LET f == Fired
  IN [ reasons |-> f[1].reasons \o f[2].reasons \o f[3].reasons,
       suggestions |-> f[1].suggestions \o f[2].suggestions \o f[3].suggestions,
       tags |-> f[1].tags \o f[2].tags \o f[3].tags ]

\* C19 as stated: the reasons, suggestions and tags returned are exactly
\* the strings the rules that fired appended, in the order of evaluation,
\* with nothing added, removed or replaced.
C19_ListsAreWhatRulesAppended ==
  AssessedOnce =>
    LET fired == FiredLists
    IN /\ risk.reasons = fired.reasons
       /\ risk.suggestions = fired.suggestions
       /\ risk.tags = fired.tags

\* C19: the reasons and the tags returned are exactly the strings the rules
\* that fired appended, in the order of evaluation, and so are the
\* suggestions when a rule appended one; when no rule appended a
\* suggestion, the suggestions returned are the single string
\* "No immediate action required.", which no rule appended.
C19_ListsAreWhatRulesAppendedOrDefault ==
  AssessedOnce =>
    LET fired == FiredLists
    IN /\ risk.reasons = fired.reasons
       /\ risk.tags = fired.tags
       /\ risk.suggestions =
            IF fired.suggestions # <<>> THEN fired.suggestions
            ELSE <<"No immediate action required.">>

\* the branch of the type, the ambiguity rule and the red-flag rule all
\* fired, each with a reason and a tag, two of them with a suggestion
C19_Witness ==
  /\ AssessedOnce
  /\ LET f == Fired
     IN \A k \in 1..3 : f[k].reasons # <<>> /\ f[k].tags # <<>>
  /\ Len(risk.reasons) = 3 /\ Len(risk.tags) = 3 /\ Len(risk.suggestions) = 2
  /\ risk.reasons[3] = "Contains critical red-flag language."

(***************************************************************************)
(* C20: the warnings of analyze_clause_quality.                            *)
(***************************************************************************)
\* each warning is in the list exactly when its own condition holds, and
\* the list holds no warning twice
EachWarningOnItsOwn(txt, q) ==
  LET ws == Range(q.warnings)
  IN /\ "Clause is unusually short" \in ws <=> StrLen(txt) < 50
     /\ "Clause is unusually long (possible merge)" \in ws <=> StrLen(txt) > 1200
     /\ "No sentence structure detected" \in ws <=>
          \A i \in 1..Len(txt) : txt[i] \notin {DOT, BANG, QMARK}
     /\ Cardinality(ws) = Len(q.warnings)
     /\ ws \subseteq { "Clause is unusually short",
                       "Clause is unusually long (possible merge)",
                       "No sentence structure detected" }

\* the numbers of warnings that analyze_clause_quality gives for the texts
\* of Samples
CountsProduced == { Len(analyze_clause_quality(s).warnings) : s \in Samples }

\* C20 as stated: the three warnings are appended independently of each
\* other, each when its own condition holds, and each warning count 0, 1,
\* 2 and 3 is produced by some clause text.
C20_EveryCountProduced ==
  /\ checked # NoQuality => EachWarningOnItsOwn(sample, checked)
  /\ \A n \in 0..3 : n \in CountsProduced

\* a text of Samples without a warning, one with one and one with two
TextWithWarnings == << <<REFUND, SP, DOT>>, <<RENT, SP, DOT>>, <<PLAIN>> >>

\* C20: each of the three warnings is appended exactly when its own
\* condition holds; the short and the long condition exclude each other, so
\* a clause has at most 2 warnings: each warning count 0, 1 and 2 is
\* produced by some clause text, and 3 by none.
C20_AtMostTwoWarnings ==
  /\ checked # NoQuality =>
       /\ EachWarningOnItsOwn(sample, checked)
       /\ Len(checked.warnings) <= 2
       /\ ~(StrLen(sample) < 50 /\ StrLen(sample) > 1200)
  /\ \A n \in 0..2 :
       Len(analyze_clause_quality(TextWithWarnings[n + 1]).warnings) = n

\* a text of more than 1200 characters without '.', '!' or '?' was given
\* the long warning and the sentence warning
C20_Witness ==
  /\ checked # NoQuality /\ checked.length > 1200 /\ checked.sentences = 0
  /\ checked.warnings = << "Clause is unusually long (possible merge)",
                           "No sentence structure detected" >>

(***************************************************************************)
(* C21: the annotations of a record.                                       *)
(***************************************************************************)
\* the rules of guess_clause_type that a text satisfies, by position
SatisfiedBy(txt) == { k \in 1..Len(TypeRules) : RuleHolds(TypeRules[k], txt) }

\* record r carries the quality, the type hint and the action of its own
\* text; the action follows the warnings first and the score second
AnnotatedFromOwnText(r) ==
  LET sat == SatisfiedBy(r.text)
  IN /\ r.quality = analyze_clause_quality(r.text)
     /\ r.quality.length = StrLen(r.text)
     /\ r.quality.sentences = CountSentences(r.text)
     /\ EachWarningOnItsOwn(r.text, r.quality)
     /\ r.type_hint = guess_clause_type(r.text)
     /\ IF sat = {} THEN r.type_hint = "General"
        ELSE \E k \in sat : r.type_hint = TypeRules[k] /\ \A j \in sat : k <= j
     /\ r.action = decide_action(r.quality)
     /\ r.action \in {"Review Required", "Rewrite Suggested", "Looks Acceptable"}
     /\ r.action = "Review Required" <=> r.quality.warnings # <<>>
     /\ r.action = "Rewrite Suggested" <=>
          (r.quality.warnings = <<>> /\ r.quality.quality_score < 60)

AllAnnotated(recs) == \A i \in 1..Len(recs) : AnnotatedFromOwnText(recs[i])

\* C21: every record returned, under any strategy, carries quality =
\* analyze_clause_quality(text), type_hint = guess_clause_type(text) and
\* action = decide_action(quality) of its own
\* text; the action is "Review Required" exactly when the record has a
\* warning, whatever its score, otherwise "Rewrite Suggested" exactly when
\* the score is below 0.6, otherwise "Looks Acceptable".
C21_RecordsAnnotated == Returned => AllAnnotated(result)

\* a returned record has a warning and a score of 0.6 or more, and its
\* action is "Review Required"
C21_Witness ==
  /\ Returned
  /\ \E i \in 1..Len(result) :
       /\ result[i].quality.warnings # <<>>
       /\ result[i].quality.quality_score >= 60
       /\ result[i].action = "Review Required"


(***************************************************************************)
(* C22: for every non-empty clause text, found_terms of analyze_ambiguity  *)
(* equals detect_ambiguity of the same text, which lists exactly the       *)
(* lexicon phrases that occur in the lower-cased text (a text with 'best   *)
(* efforts' and 'commercially reasonable' yields both); severity_score is  *)
(* the sum of the severities of the found terms; risk_level is High iff    *)
(* the score is at least 6, Medium iff it is at least 3 and below 6, Low   *)
(* otherwise; and the 'no ambiguous language' explanation is returned iff  *)
(* found_terms is empty.                                                   *)
(***************************************************************************)
LexiconTerms == { AMBIGUOUS_TERMS[i].term : i \in 1..Len(AMBIGUOUS_TERMS) }

SeverityOf(term) ==
  (CHOOSE m \in Range(AMBIGUOUS_TERMS) : m.term = term).severity

RECURSIVE SumOfSeverities(_)
SumOfSeverities(terms) ==
  IF terms = <<>> THEN 0
  ELSE SeverityOf(terms[1]) + SumOfSeverities(SubSeq(terms, 2, Len(terms)))

OccurringPhrases(txt) == { term \in LexiconTerms : In(term, Lower(txt)) }

\* found lists each occurring lexicon phrase once and nothing else
ListsOccurring(terms, txt) ==
  /\ Range(terms) = OccurringPhrases(txt)
  /\ Cardinality(Range(terms)) = Len(terms)

C22_AnalysisOfPassage ==
  (passage # <<>>) =>
    /\ apc \in {"detected", "analyzed"} =>
         /\ ListsOccurring(found, passage)
         /\ ( /\ In(<<"best", "efforts">>, Lower(passage))
              /\ In(<<"commercially", "reasonable">>, Lower(passage)) )
            => {<<"best", "efforts">>, <<"commercially", "reasonable">>}
                 \subseteq Range(found)
    /\ apc = "analyzed" =>
         /\ analysis.found_terms = found
         /\ analysis.severity_score = SumOfSeverities(analysis.found_terms)
         /\ analysis.risk_level \in {"High", "Medium", "Low"}
         /\ analysis.risk_level = "High" <=> analysis.severity_score >= 6
         /\ analysis.risk_level = "Medium" <=>
              (analysis.severity_score >= 3 /\ analysis.severity_score < 6)
         /\ analysis.explanation = NoAmbiguousLanguage <=>
              analysis.found_terms = <<>>

C22_Witness ==
  /\ apc = "analyzed"
  /\ analysis.found_terms =
       << <<"reasonable">>, <<"best", "efforts">>, <<"commercially", "reasonable">> >>
  /\ analysis.severity_score = 8
  /\ analysis.risk_level = "High"


(***************************************************************************)
(* C23: in the per-clause loop of the application the clause type handed   *)
(* to the explanation generator and to the rewrite generator, and shown in *)
(* the clause header, is always "General", whatever the record's type_hint *)
(* and whatever type assess_risk derives, because no clause record carries *)
(* the key 'type' the loop reads; and the rewrite generator is called only *)
(* for clauses of at least 30 characters whose risk_level is Medium or     *)
(* High.                                                                   *)
(***************************************************************************)
RecordKeys ==
  {"clause_id", "title", "text", "type_hint", "quality", "action", "source"}

\* the risk level assess_risk gives the stripped text of a record
LevelOf(record) == assess_risk(WordsOf(Strip(record.text))).risk_level

\* a call of the rewrite generator is for a returned clause of at least 30
\* characters that assess_risk rates Medium or High
RewriteCallJustified(call) ==
  /\ call.risk_level \in {"Medium", "High"}
  /\ StrLen(call.clause_text) >= 30
  /\ \E i \in 1..Len(result) :
        /\ call.clause_text = Strip(result[i].text)
        /\ call.risk_level = LevelOf(result[i])

C23_LoopHandsGeneral ==
  /\ \A i \in 1..Len(clauses) : DOMAIN clauses[i] = RecordKeys
  /\ \A i \in 1..Len(result) : DOMAIN result[i] = RecordKeys
  /\ \A k \in 1..Len(explained) : explained[k].clause_type = "General"
  /\ \A k \in 1..Len(headers) : headers[k].clause_type = "General"
  /\ \A k \in 1..Len(rewritten) :
        /\ rewritten[k].clause_type = "General"
        /\ RewriteCallJustified(rewritten[k])

\* the loop has ended after it skipped a clause of fewer than 30 characters
\* that assess_risk rates High, and called the rewrite generator for a High
\* clause whose type_hint and assessed type are Termination and for a Medium
\* clause whose type_hint is Indemnity & Liability
C23_Witness ==
  /\ app = "end"
  /\ \E i \in 1..Len(result) :
        /\ StrLen(Strip(result[i].text)) < 30
        /\ LevelOf(result[i]) = "High"
        /\ \A k \in 1..Len(headers) : headers[k].i # i
  /\ \E i \in 1..Len(result), k \in 1..Len(rewritten) :
        /\ rewritten[k].clause_text = Strip(result[i].text)
        /\ rewritten[k].risk_level = "High"
        /\ result[i].type_hint = "Termination"
        /\ assess_risk(WordsOf(rewritten[k].clause_text)).type = "Termination"
        /\ rewritten[k].clause_type = "General"
  /\ \E i \in 1..Len(result), k \in 1..Len(rewritten) :
        /\ rewritten[k].clause_text = Strip(result[i].text)
        /\ rewritten[k].risk_level = "Medium"
        /\ result[i].type_hint = "Indemnity & Liability"
  /\ \E k \in 1..Len(headers) :
        headers[k].clause_type = "General" /\ headers[k].risk_level = "High"
====
